---- MODULE Spec2Model ----
(***************************************************************************)
(* Model of the adaptive exercise selector of the Lithuanian price quiz:   *)
(* src/adaptive.py (AdaptiveLearning, _bump, _sample_weakest), the number  *)
(* classification of src/quiz.py and its twin in                           *)
(* src/adaptive_learning_service.py, the service's selector, the row       *)
(* lookups, the saved progress of src/auth.py, and the request flow of     *)
(* src/main.py over the sessions table of src/session_manager.py.          *)
(*                                                                         *)
(* A session is a Python dict: a function whose domain is the set of keys  *)
(* it holds.  A category of arms is a Python dict whose iteration order is *)
(* its insertion order: a sequence of [arm, correct, incorrect] records.   *)
(* Probabilities are in tenths (2 is 0.2).                                 *)
(***************************************************************************)
EXTENDS Integers, Sequences, FiniteSets, TLC

VARIABLES session, calls, last, engine, db_service, user_progress,
          sessions_db, clients, now

hostVars == <<engine, db_service, user_progress, sessions_db, clients, now>>

vars == <<session, calls, last, engine, db_service, user_progress,
          sessions_db, clients, now>>

(***************************************************************************)
(* Bounds of the exploration.                                              *)
(***************************************************************************)
MaxUpdates == 11
MaxVaried == 1
MaxNumber == 999
MaxReportUpdates == 5
MaxLookup == 20
MaxProgressUpdates == 3
MaxAnswers == 1
MaxSessionIds == 2
MaxTime == 1
MaxManagerCalls == 2
MaxServiceUpdates == 10
MaxArms == 3
MaxHistoryAnswers == 502
MaxTabAnswers == 2
MaxDraw == 3

(***************************************************************************)
(* Program constants.                                                      *)
(***************************************************************************)
None == "None"

EXERCISE_TYPES == <<"kokia", "kiek">>

ITEMS == <<"knyga", "puodelis", "marskineliai", "zurnalas", "kepure">>

adaptation_threshold == 10

default_exploration_rate == 2

SeedArmUnseeded(key) == [arm |-> key, correct |-> 0, incorrect |-> 0]

SeedArm(key) == [arm |-> key, correct |-> 0, incorrect |-> 1]

(***************************************************************************)
(* Python dict helpers.                                                    *)
(***************************************************************************)
EmptyDict == <<>>

Get(d, k, default) == IF k \in DOMAIN d THEN d[k] ELSE default

Truthy(v) == v # None /\ v # ""

NonEmpty(d) == d # <<>>

Range(s) == {s[i] : i \in DOMAIN s}

ArmNames(category) == {category[i].arm : i \in DOMAIN category}

HasArm(category, key) == key \in ArmNames(category)

ArmOf(category, key) ==
    category[CHOOSE i \in DOMAIN category : category[i].arm = key]

(***************************************************************************)
(* quiz.number_pattern and AdaptiveLearningService._determine_number_pattern*)
(***************************************************************************)
number_pattern_teens_from_11(n) ==
    IF n <= 10 THEN "single_digit"
    ELSE IF n < 20 THEN "teens"
    ELSE IF n % 10 = 0 THEN "decade"
    ELSE "compound"

number_pattern(n) ==
    IF n < 10 THEN "single_digit"
    ELSE IF n < 20 THEN "teens"
    ELSE IF n % 10 = 0 THEN "decade"
    ELSE "compound"

_determine_number_pattern(number) ==
    IF number < 10 THEN "single_digit"
    ELSE IF number < 20 THEN "teens"
    ELSE IF number % 10 = 0 THEN "decade"
    ELSE "compound"

(***************************************************************************)
(* adaptive._bump: create the arm if missing, then increment one side.     *)
(***************************************************************************)
_bump_restarting(category, key, is_correct) ==
    LET created == IF HasArm(category, key)
                   THEN category
                   ELSE Append(category, SeedArm(key))
    IN [i \in DOMAIN created |->
          IF created[i].arm = key
          THEN IF is_correct
               THEN [SeedArm(key) EXCEPT !.correct = @ + 1]
               ELSE [SeedArm(key) EXCEPT !.incorrect = @ + 1]
          ELSE created[i]]

_bump_always_correct(category, key, is_correct) ==
    LET created == IF HasArm(category, key)
                   THEN category
                   ELSE Append(category, SeedArm(key))
    IN [i \in DOMAIN created |->
          IF created[i].arm = key
          THEN [created[i] EXCEPT !.correct = @ + 1]
          ELSE created[i]]

_bump_without_seed(category, key, is_correct) ==
    LET created == IF HasArm(category, key)
                   THEN category
                   ELSE Append(category,
                               [arm |-> key, correct |-> 0, incorrect |-> 0])
    IN [i \in DOMAIN created |->
          IF created[i].arm = key
          THEN IF is_correct
               THEN [created[i] EXCEPT !.correct = @ + 1]
               ELSE [created[i] EXCEPT !.incorrect = @ + 1]
          ELSE created[i]]

_bump(category, key, is_correct) ==
    LET created == IF HasArm(category, key)
                   THEN category
                   ELSE Append(category, SeedArm(key))
    IN [i \in DOMAIN created |->
          IF created[i].arm = key
          THEN IF is_correct
               THEN [created[i] EXCEPT !.correct = @ + 1]
               ELSE [created[i] EXCEPT !.incorrect = @ + 1]
          ELSE created[i]]

(***************************************************************************)
(* adaptive._sample_weakest: one Beta draw per arm (draws[i] is the draw   *)
(* of the i-th arm in iteration order); min() returns the first arm whose  *)
(* draw is minimal.                                                        *)
(***************************************************************************)
_sample_weakest_last_minimal(arms, draws) ==
    LET i == CHOOSE j \in DOMAIN arms :
                 /\ \A k \in DOMAIN arms : draws[j] <= draws[k]
                 /\ \A k \in DOMAIN arms : k > j => draws[k] > draws[j]
    IN arms[i].arm

_sample_weakest(arms, draws) ==
    LET i == CHOOSE j \in DOMAIN arms :
                 /\ \A k \in DOMAIN arms : draws[j] <= draws[k]
                 /\ \A k \in DOMAIN arms : k < j => draws[k] > draws[j]
    IN arms[i].arm

(***************************************************************************)
(* AdaptiveLearning.init_tracking                                          *)
(***************************************************************************)
FreshPerformance ==
    [exercise_types    |-> [i \in DOMAIN EXERCISE_TYPES |->
                               SeedArm(EXERCISE_TYPES[i])],
     number_patterns   |-> <<>>,
     grammatical_cases |-> <<>>,
     combined_arms     |-> <<>>,
     total_exercises   |-> 0]

init_tracking_reset(s) ==
    [k \in DOMAIN s \cup {"performance"} |->
       IF k = "performance" THEN FreshPerformance ELSE s[k]]

init_tracking_reseed(s) ==
    IF "performance" \in DOMAIN s
    THEN [s EXCEPT !["performance"].exercise_types =
             FreshPerformance.exercise_types]
    ELSE [k \in DOMAIN s \cup {"performance"} |->
            IF k = "performance" THEN FreshPerformance ELSE s[k]]

init_tracking(s) ==
    IF "performance" \in DOMAIN s
    THEN s
    ELSE [k \in DOMAIN s \cup {"performance"} |->
            IF k = "performance" THEN FreshPerformance ELSE s[k]]

(***************************************************************************)
(* AdaptiveLearning.update.  The dict is mutated in place, so a KeyError   *)
(* raised half way leaves the assignments made before it.                  *)
(***************************************************************************)
CombinedKey(exercise_type, np_, gc) ==
    exercise_type \o "_" \o np_ \o "_" \o gc

WithPerformance(s, perf) == [s EXCEPT !["performance"] = perf]

update_arms_combined_if_either(perf1, exercise_info, is_correct) ==
    LET ex_type == exercise_info["exercise_type"]
        perf2 == [perf1 EXCEPT !.exercise_types =
                     _bump(@, ex_type, is_correct)]
        np_   == Get(exercise_info, "number_pattern", None)
        perf3 == IF Truthy(np_)
                 THEN [perf2 EXCEPT !.number_patterns =
                          _bump(@, np_, is_correct)]
                 ELSE perf2
        gc    == Get(exercise_info, "grammatical_case", None)
        perf4 == IF Truthy(gc)
                 THEN [perf3 EXCEPT !.grammatical_cases =
                          _bump(@, gc, is_correct)]
                 ELSE perf3
    IN IF Truthy(np_) \/ Truthy(gc)
       THEN [perf4 EXCEPT !.combined_arms =
                _bump(@, CombinedKey(ex_type, np_, gc), is_correct)]
       ELSE perf4

update_arms(perf1, exercise_info, is_correct) ==
    LET ex_type == exercise_info["exercise_type"]
        perf2 == [perf1 EXCEPT !.exercise_types =
                     _bump(@, ex_type, is_correct)]
        np_   == Get(exercise_info, "number_pattern", None)
        perf3 == IF Truthy(np_)
                 THEN [perf2 EXCEPT !.number_patterns =
                          _bump(@, np_, is_correct)]
                 ELSE perf2
        gc    == Get(exercise_info, "grammatical_case", None)
        perf4 == IF Truthy(gc)
                 THEN [perf3 EXCEPT !.grammatical_cases =
                          _bump(@, gc, is_correct)]
                 ELSE perf3
    IN IF Truthy(np_) /\ Truthy(gc)
       THEN [perf4 EXCEPT !.combined_arms =
                _bump(@, CombinedKey(ex_type, np_, gc), is_correct)]
       ELSE perf4

update_counting_twice(s, exercise_info, is_correct) ==
    LET s0    == init_tracking(s)
        perf0 == s0["performance"]
    IN
    IF "exercise_type" \notin DOMAIN exercise_info
    THEN [session |-> WithPerformance(s0,
                         [perf0 EXCEPT !.total_exercises = @ + 2]),
          raised  |-> "KeyError"]
    ELSE [session |-> WithPerformance(s0,
                         update_arms([perf0 EXCEPT !.total_exercises = @ + 2],
                                     exercise_info, is_correct)),
          raised  |-> None]

update_counting_last(s, exercise_info, is_correct) ==
    LET s0    == init_tracking(s)
        perf0 == s0["performance"]
    IN
    IF "exercise_type" \notin DOMAIN exercise_info
    THEN [session |-> s0, raised |-> "KeyError"]
    ELSE [session |-> WithPerformance(s0,
                         update_arms([perf0 EXCEPT !.total_exercises = @ + 1],
                                     exercise_info, is_correct)),
          raised  |-> None]

update(s, exercise_info, is_correct) ==
    LET s0    == init_tracking(s)
        perf0 == s0["performance"]
    IN
    IF "total_exercises" \notin DOMAIN perf0
    THEN [session |-> s0, raised |-> "KeyError"]
    ELSE
    LET perf1 == [perf0 EXCEPT !.total_exercises = @ + 1]
    IN
    IF "exercise_type" \notin DOMAIN exercise_info
    THEN [session |-> WithPerformance(s0, perf1), raised |-> "KeyError"]
    ELSE [session |-> WithPerformance(s0,
                         update_arms(perf1, exercise_info, is_correct)),
          raised  |-> None]

(***************************************************************************)
(* AdaptiveLearningService: initialize_performance_tracking, _update_arm   *)
(* and update_performance, the service's twins of init_tracking, _bump     *)
(* and update.                                                             *)
(***************************************************************************)
initialize_performance_tracking(s) ==
    IF "performance" \in DOMAIN s
    THEN s
    ELSE [k \in DOMAIN s \cup {"performance"} |->
            IF k = "performance"
            THEN [exercise_types    |->
                     <<[arm |-> "kokia", correct |-> 0, incorrect |-> 1],
                       [arm |-> "kiek", correct |-> 0, incorrect |-> 1]>>,
                  number_patterns   |-> <<>>,
                  grammatical_cases |-> <<>>,
                  combined_arms     |-> <<>>,
                  total_exercises   |-> 0]
            ELSE s[k]]

_update_arm(category_dict, key, is_correct) ==
    LET created == IF HasArm(category_dict, key)
                   THEN category_dict
                   ELSE Append(category_dict,
                               [arm |-> key, correct |-> 0, incorrect |-> 1])
    IN [i \in DOMAIN created |->
          IF created[i].arm = key
          THEN IF is_correct
               THEN [created[i] EXCEPT !.correct = @ + 1]
               ELSE [created[i] EXCEPT !.incorrect = @ + 1]
          ELSE created[i]]

update_performance(s, exercise_info, is_correct) ==
    LET s0    == initialize_performance_tracking(s)
        perf0 == s0["performance"]
    IN
    IF "total_exercises" \notin DOMAIN perf0
    THEN [session |-> s0, raised |-> "KeyError"]
    ELSE
    LET perf1 == [perf0 EXCEPT !.total_exercises = @ + 1]
    IN
    IF "exercise_type" \notin DOMAIN exercise_info
    THEN [session |-> WithPerformance(s0, perf1), raised |-> "KeyError"]
    ELSE
    LET ex_type          == exercise_info["exercise_type"]
        perf2            == [perf1 EXCEPT !.exercise_types =
                                _update_arm(@, ex_type, is_correct)]
        number_pattern_  == Get(exercise_info, "number_pattern", None)
        perf3            == IF Truthy(number_pattern_)
                            THEN [perf2 EXCEPT !.number_patterns =
                                     _update_arm(@, number_pattern_,
                                                 is_correct)]
                            ELSE perf2
        grammatical_case == Get(exercise_info, "grammatical_case", None)
        perf4            == IF Truthy(grammatical_case)
                            THEN [perf3 EXCEPT !.grammatical_cases =
                                     _update_arm(@, grammatical_case,
                                                 is_correct)]
                            ELSE perf3
        perf5            == IF Truthy(number_pattern_)
                               /\ Truthy(grammatical_case)
                            THEN [perf4 EXCEPT !.combined_arms =
                                     _update_arm(@,
                                        CombinedKey(ex_type, number_pattern_,
                                                    grammatical_case),
                                        is_correct)]
                            ELSE perf4
    IN [session |-> WithPerformance(s0, perf5), raised |-> None]

(***************************************************************************)
(* The catalog (engine.rows): immutable and non-empty.  No row is a        *)
(* decade, so that a sampled pattern can miss the catalog.                 *)
(***************************************************************************)
Row(n) == [number |-> n]

Rows == <<Row(5), Row(15)>>

Price(row) == <<"EUR", row.number>>

GrammaticalCaseAlwaysNominative(ex_type) == "nominative"

GrammaticalCaseOf(ex_type) ==
    IF ex_type = "kiek" THEN "accusative" ELSE "nominative"

(***************************************************************************)
(* quiz.ExerciseEngine: rows and the by_number dict built from them (a     *)
(* later row of the same number replaces an earlier one).  get_row is a    *)
(* dict subscript: KeyError when the number is not a key.                  *)
(***************************************************************************)
ExerciseEngine(rows) ==
    [rows      |-> rows,
     by_number |-> [n \in {rows[i].number : i \in DOMAIN rows} |->
                      rows[CHOOSE i \in DOMAIN rows :
                              /\ rows[i].number = n
                              /\ \A j \in DOMAIN rows :
                                    rows[j].number = n => j <= i]]]

get_row(eng, number) ==
    IF number \in DOMAIN eng.by_number
    THEN [row |-> eng.by_number[number], raised |-> None]
    ELSE [raised |-> "KeyError"]

(***************************************************************************)
(* main.DatabaseService: the numbers table, the lazily filled _rows_cache  *)
(* (<<>> is None, <<rows>> the loaded list) and _row_by_number_cache.      *)
(***************************************************************************)
DatabaseService ==
    [numbers              |-> Rows,
     _rows_cache          |-> <<>>,
     _row_by_number_cache |-> <<>>]

rows(db) ==
    LET db1 == IF db._rows_cache = <<>>
               THEN [db EXCEPT !._rows_cache = <<db.numbers>>]
               ELSE db
    IN [db |-> db1, value |-> db1._rows_cache[1]]

get_row_by_number_first_row(db, number) ==
    LET r == rows(db)
    IN [db     |-> [r.db EXCEPT !._row_by_number_cache =
                      [n \in DOMAIN @ \cup {number} |-> r.value[1]]],
        row    |-> r.value[1],
        raised |-> None]

get_row_by_number(db, number) ==
    IF number \in DOMAIN db._row_by_number_cache
    THEN [db     |-> db,
          row    |-> db._row_by_number_cache[number],
          raised |-> None]
    ELSE LET r       == rows(db)
             matches == {i \in DOMAIN r.value : r.value[i].number = number}
         IN IF matches = {}
            THEN [db |-> r.db, raised |-> "ValueError"]
            ELSE LET row == r.value[CHOOSE i \in matches :
                                       \A j \in matches : i <= j]
                 IN [db     |-> [r.db EXCEPT !._row_by_number_cache =
                                   [n \in DOMAIN @ \cup {number} |->
                                      IF n = number THEN row ELSE @[n]]],
                     row    |-> row,
                     raised |-> None]

(***************************************************************************)
(* The random draws.  random.choice(seq) can return any element of seq;    *)
(* the Beta draws of _sample_weakest are any assignment of draws to arms.  *)
(***************************************************************************)
BetaDraws == {1, 2}

Choices(seq) == Range(seq)

ItemChoices(ex_type) ==
    IF ex_type = "kiek" THEN Choices(ITEMS) ELSE {None}

WeakestChoices(arms) ==
    {_sample_weakest(arms, draws) : draws \in [DOMAIN arms -> BetaDraws]}

(***************************************************************************)
(* AdaptiveLearning._random_exercise; row, ex_type and item are the        *)
(* results of the random.choice calls (an item is drawn only for kiek).    *)
(***************************************************************************)
_random_exercise(row, ex_type, item) ==
    [exercise_type    |-> ex_type,
     price            |-> Price(row),
     item             |-> item,
     row              |-> row,
     grammatical_case |-> GrammaticalCaseOf(ex_type),
     number_pattern   |-> number_pattern(row.number)]

(***************************************************************************)
(* AdaptiveLearning._thompson_sample.  ex_type is the result of step 1,    *)
(* np_ of step 2 (PatternChoices), row of step 3 (RowChoices), item the    *)
(* item drawn (only for kiek).                                             *)
(***************************************************************************)
PatternChoicesCombinedFirst(perf) ==
    IF NonEmpty(perf.combined_arms)
    THEN {"compound"}
    ELSE IF NonEmpty(perf.number_patterns)
    THEN WeakestChoices(perf.number_patterns)
    ELSE {number_pattern(r.number) : r \in Choices(Rows)}

PatternChoices(perf) ==
    IF NonEmpty(perf.number_patterns)
    THEN WeakestChoices(perf.number_patterns)
    ELSE {number_pattern(r.number) : r \in Choices(Rows)}

MatchingRows(np_) ==
    SelectSeq(Rows, LAMBDA r : number_pattern(r.number) = np_)

RowChoicesAnyRow(np_) == Choices(Rows)

RowChoices(np_) ==
    IF NonEmpty(MatchingRows(np_))
    THEN Choices(MatchingRows(np_))
    ELSE Choices(Rows)

_thompson_sample(ex_type, row, item) ==
    [exercise_type    |-> ex_type,
     price            |-> Price(row),
     item             |-> item,
     row              |-> row,
     grammatical_case |-> GrammaticalCaseOf(ex_type),
     number_pattern   |-> number_pattern(row.number)]

(***************************************************************************)
(* The branch of AdaptiveLearning.select_exercise: u is random.random().   *)
(***************************************************************************)
ExploresOnlyWhenBoth(perf, u, exploration_rate) ==
    u < exploration_rate /\ perf.total_exercises < adaptation_threshold

Explores(perf, u, exploration_rate) ==
    u < exploration_rate \/ perf.total_exercises < adaptation_threshold

(***************************************************************************)
(* AdaptiveLearning.select_exercise after init_tracking: the results that  *)
(* the draws can give for the record perf, each with the branch taken and, *)
(* in the exploit branch, the pattern sampled in step 2.                   *)
(***************************************************************************)
select_exercise(perf, exploration_rate, u) ==
    IF Explores(perf, u, exploration_rate)
    THEN UNION {{[mode     |-> "explore",
                  exercise |-> _random_exercise(row, ex_type, item)] :
                    item \in ItemChoices(ex_type)} :
                row \in Choices(Rows), ex_type \in Choices(EXERCISE_TYPES)}
    ELSE UNION {UNION {{[mode            |-> "exploit",
                         sampled_pattern |-> np_,
                         exercise        |->
                             _thompson_sample(ex_type, row, item)] :
                           item \in ItemChoices(ex_type)} :
                       row \in RowChoices(np_)} :
                ex_type \in WeakestChoices(perf.exercise_types),
                np_ \in PatternChoices(perf)}

(***************************************************************************)
(* AdaptiveLearning.get_weak_areas.  The result dict is a sequence of      *)
(* [label, areas] entries in insertion order; a success rate correct/total *)
(* is kept as the fraction [num, den].  list.sort is stable.               *)
(***************************************************************************)
Categories ==
    <<[label |-> "Exercise Types",    key |-> "exercise_types"],
      [label |-> "Number Patterns",   key |-> "number_patterns"],
      [label |-> "Grammatical Cases", key |-> "grammatical_cases"]>>

RateLess(a, b) ==
    a.success_rate.num * b.success_rate.den
        < b.success_rate.num * a.success_rate.den

RatesIncludingSeeds(cat) ==
    LET q == SelectSeq(cat, LAMBDA a : a.correct + a.incorrect > 0)
    IN [i \in DOMAIN q |->
          [name         |-> q[i].arm,
           success_rate |-> [num |-> q[i].correct,
                             den |-> q[i].correct + q[i].incorrect]]]

Rates(cat) ==
    LET q == SelectSeq(cat, LAMBDA a : a.correct + a.incorrect > 1)
    IN [i \in DOMAIN q |->
          [name         |-> q[i].arm,
           success_rate |-> [num |-> q[i].correct,
                             den |-> q[i].correct + q[i].incorrect]]]

InsertByRateAppend(sorted, x) == Append(sorted, x)

InsertByRate(sorted, x) ==
    LET before == SelectSeq(sorted, LAMBDA y : ~RateLess(x, y))
        after  == SelectSeq(sorted, LAMBDA y : RateLess(x, y))
    IN before \o <<x>> \o after

RECURSIVE SortByRate(_)
SortByRate(rates) ==
    IF Len(rates) = 0
    THEN <<>>
    ELSE InsertByRate(SortByRate(SubSeq(rates, 1, Len(rates) - 1)),
                      rates[Len(rates)])

FirstThree(rates) ==
    SubSeq(rates, 1, IF Len(rates) < 3 THEN Len(rates) ELSE 3)

RECURSIVE WeakOf(_, _)
WeakOf(perf, n) ==
    IF n = 0
    THEN <<>>
    ELSE LET weak  == WeakOf(perf, n - 1)
             cat   == Get(perf, Categories[n].key, <<>>)
             rates == Rates(cat)
         IN IF NonEmpty(cat) /\ NonEmpty(rates)
            THEN Append(weak, [label |-> Categories[n].label,
                               areas |-> FirstThree(SortByRate(rates))])
            ELSE weak

get_weak_areas_every_label(s) ==
    [n \in DOMAIN Categories |->
       [label |-> Categories[n].label,
        areas |-> IF "performance" \in DOMAIN s
                  THEN FirstThree(SortByRate(Rates(
                           Get(s["performance"], Categories[n].key, <<>>))))
                  ELSE <<>>]]

get_weak_areas(s) ==
    IF "performance" \notin DOMAIN s
    THEN <<>>
    ELSE WeakOf(s["performance"], Len(Categories))

(***************************************************************************)
(* AdaptiveLearningService.get_weak_areas: success_rates is a dict filled  *)
(* in the category's order, sorted() is stable, a label is set only when   *)
(* success_rates is not empty.                                             *)
(***************************************************************************)
service_get_weak_areas(s) ==
    IF "performance" \notin DOMAIN s
    THEN <<>>
    ELSE LET perf == s["performance"]
             all  == [n \in DOMAIN Categories |->
                        [label |-> Categories[n].label,
                         areas |-> FirstThree(SortByRate(Rates(
                                      Get(perf, Categories[n].key, <<>>))))]]
         IN SelectSeq(all, LAMBDA e : NonEmpty(e.areas))

(***************************************************************************)
(* Inputs of the calls.                                                    *)
(***************************************************************************)
Absent == "<absent>"

ExerciseInfo(exercise_type, np_, gc) ==
    LET given == [exercise_type    |-> exercise_type,
                  number_pattern   |-> np_,
                  grammatical_case |-> gc]
    IN [k \in {f \in DOMAIN given : given[f] # Absent} |-> given[k]]

PlainInfos ==
    {ExerciseInfo("kokia", "single_digit", "nominative")}

VariedInfos ==
    PlainInfos \cup
    {ExerciseInfo("kiek", "decade", "accusative"),
     ExerciseInfo("foo", "teens", Absent),
     ExerciseInfo("kiek", None, "accusative"),
     ExerciseInfo("kokia", Absent, Absent),
     ExerciseInfo(Absent, "single_digit", "nominative")}

WellFormed(exercise_info) == "exercise_type" \in DOMAIN exercise_info

UpdateInputs ==
    IF calls < MaxVaried THEN VariedInfos ELSE PlainInfos

ExplorationRates == {0, default_exploration_rate}

UniformDraws == {1}

(***************************************************************************)
(* The state after construction: an empty session dict, no call made.      *)
(***************************************************************************)
(***************************************************************************)
(* AdaptiveLearningService.select_exercise (main.py's selector).  The      *)
(* random draws are not inputs here: each operator gives the set of the    *)
(* results the draws can produce.                                          *)
(*                                                                         *)
(* A combined key is one string; str.split and str.startswith are computed *)
(* on the words between its underscores.  WordsOf gives the words of a     *)
(* name the program produces (single_digit is the only one holding an      *)
(* underscore), KeyWords the words of a key built from three such names.   *)
(***************************************************************************)
KnownNames ==
    {"kokia", "kiek", "foo", "single_digit", "teens", "decade", "compound",
     "nominative", "accusative"}

WordsOf(name) ==
    IF name = "single_digit" THEN <<"single", "digit">> ELSE <<name>>

KeyWords(key) ==
    LET p == CHOOSE q \in KnownNames \X KnownNames \X KnownNames :
                CombinedKey(q[1], q[2], q[3]) = key
    IN WordsOf(p[1]) \o WordsOf(p[2]) \o WordsOf(p[3])

RECURSIVE JoinWords(_)
JoinWords(words) ==
    IF Len(words) = 1
    THEN words[1]
    ELSE words[1] \o "_" \o JoinWords(Tail(words))

split_2(key) ==
    LET words == KeyWords(key)
    IN IF Len(words) <= 3
       THEN words
       ELSE <<words[1], words[2], JoinWords(SubSeq(words, 3, Len(words)))>>

startswith_type(key, ex_type) ==
    Len(KeyWords(key)) > 1 /\ KeyWords(key)[1] = ex_type

_generate_random_exercise(row, exercise_type, item) ==
    [exercise_type    |-> exercise_type,
     price            |-> Price(row),
     item             |-> item,
     row              |-> row,
     grammatical_case |-> IF exercise_type = "kiek"
                          THEN "accusative" ELSE "nominative",
     number_pattern   |-> _determine_number_pattern(row.number)]

ServiceItemChoices(exercise_type) ==
    IF exercise_type = "kiek" THEN {ITEMS[1]} ELSE {None}

RandomExercises(db_rows) ==
    UNION {{_generate_random_exercise(row, exercise_type, item) :
               item \in ServiceItemChoices(exercise_type)} :
           row \in Choices(db_rows), exercise_type \in {"kokia", "kiek"}}

_sample_from_combined_arms(relevant_combined_arms) ==
    {LET parts == split_2(selected_combined)
     IN <<IF Len(parts) > 1 THEN parts[2] ELSE None,
          IF Len(parts) > 2 THEN parts[3] ELSE None>> :
        selected_combined \in WeakestChoices(relevant_combined_arms)}

_sample_number_pattern(perf, db_rows) ==
    LET number_patterns == Get(perf, "number_patterns", <<>>)
    IN IF NonEmpty(number_patterns)
       THEN WeakestChoices(number_patterns)
       ELSE {_determine_number_pattern(random_row.number) :
                random_row \in Choices(db_rows)}

_sample_separate_parameters(perf, selected_ex_type, db_rows) ==
    LET gram_cases == Get(perf, "grammatical_cases", <<>>)
    IN {<<selected_number_pattern, selected_grammatical_case>> :
           selected_number_pattern \in _sample_number_pattern(perf, db_rows),
           selected_grammatical_case \in
               IF NonEmpty(gram_cases)
               THEN WeakestChoices(gram_cases)
               ELSE {IF selected_ex_type = "kiek"
                     THEN "accusative" ELSE "nominative"}}

_sample_parameters(perf, selected_ex_type, db_rows) ==
    LET relevant_combined_arms ==
            SelectSeq(perf.combined_arms,
                      LAMBDA a : startswith_type(a.arm, selected_ex_type))
    IN IF NonEmpty(relevant_combined_arms)
       THEN _sample_from_combined_arms(relevant_combined_arms)
       ELSE _sample_separate_parameters(perf, selected_ex_type, db_rows)

_find_matching_row(db_rows, selected_number_pattern) ==
    SelectSeq(db_rows,
              LAMBDA row : _determine_number_pattern(row.number)
                              = selected_number_pattern)

_thompson_sample_exercise(perf, db_rows) ==
    UNION {UNION {LET matching_rows ==
                          _find_matching_row(db_rows, parameters[1])
                  IN IF matching_rows = <<>>
                     THEN RandomExercises(db_rows)
                     ELSE {[exercise_type    |-> selected_ex_type,
                            price            |-> Price(row),
                            item             |-> item,
                            row              |-> row,
                            grammatical_case |-> parameters[2],
                            number_pattern   |-> parameters[1]] :
                              row \in Choices(matching_rows),
                              item \in
                                  ServiceItemChoices(selected_ex_type)} :
                  parameters \in
                      _sample_parameters(perf, selected_ex_type, db_rows)} :
           selected_ex_type \in WeakestChoices(perf.exercise_types)}

service_select_exercise(perf, db_rows, exploration_rate, u) ==
    IF u < exploration_rate \/ perf.total_exercises < adaptation_threshold
    THEN RandomExercises(db_rows)
    ELSE _thompson_sample_exercise(perf, db_rows)

(***************************************************************************)
(* json.dumps / json.loads of the progress data.  A JSON object is the     *)
(* sequence of its <<key, value>> members in the order of the dict; ints,  *)
(* strings and lists are written as they are.                              *)
(***************************************************************************)
Member(obj, key) == obj[CHOOSE i \in DOMAIN obj : obj[i][1] = key][2]

PerformanceKeys ==
    <<"exercise_types", "number_patterns", "grammatical_cases",
      "combined_arms", "total_exercises">>

json_dumps_arms(category) ==
    [i \in DOMAIN category |->
       <<category[i].arm,
         << <<"correct", category[i].correct>>,
            <<"incorrect", category[i].incorrect>> >> >>]

json_loads_arms(obj) ==
    [i \in DOMAIN obj |->
       [arm       |-> obj[i][1],
        correct   |-> Member(obj[i][2], "correct"),
        incorrect |-> Member(obj[i][2], "incorrect")]]

json_dumps_performance(perf) ==
    LET keys == SelectSeq(PerformanceKeys, LAMBDA k : k \in DOMAIN perf)
    IN [i \in DOMAIN keys |->
          <<keys[i],
            IF keys[i] = "total_exercises"
            THEN perf[keys[i]]
            ELSE json_dumps_arms(perf[keys[i]])>>]

json_loads_performance(obj) ==
    [k \in {obj[i][1] : i \in DOMAIN obj} |->
       IF k = "total_exercises"
       THEN Member(obj, k)
       ELSE json_loads_arms(Member(obj, k))]

(***************************************************************************)
(* auth.save_progress and auth.load_progress for one google_id;            *)
(* user_progress is <<>> while the table has no row for it, <<data>> once  *)
(* it has.                                                                 *)
(***************************************************************************)
save_progress(s) ==
    << <<"correct_count", Get(s, "correct_count", 0)>>,
       <<"incorrect_count", Get(s, "incorrect_count", 0)>>,
       <<"history", Get(s, "history", <<>>)>>,
       <<"performance",
         json_dumps_performance(Get(s, "performance", EmptyDict))>> >>

load_progress(table, s) ==
    IF table = <<>>
    THEN s
    ELSE LET data == table[1]
         IN [k \in DOMAIN s \cup {"correct_count", "incorrect_count",
                                  "history", "performance"} |->
               CASE k = "correct_count"   -> Member(data, "correct_count")
                 [] k = "incorrect_count" -> Member(data, "incorrect_count")
                 [] k = "history"         -> Member(data, "history")
                 [] k = "performance"     ->
                       json_loads_performance(Member(data, "performance"))
                 [] OTHER                 -> s[k]]

(***************************************************************************)
(* AdaptiveLearning.select_exercise reads perf["total_exercises"] right    *)
(* after init_tracking: KeyError when the block has no such key.           *)
(***************************************************************************)
select_exercise_raises(s) ==
    "total_exercises" \notin DOMAIN init_tracking(s)["performance"]

(***************************************************************************)
(* main.py: ExerciseService and SessionManager.  A session is the dict     *)
(* get_session returned; every operator gives the session (and the         *)
(* DatabaseService) as the method leaves them.  Methods that draw an       *)
(* exercise give the set of their possible results.  A price is the pair   *)
(* Price(row), an answer the phrase of a row with or without its final     *)
(* period; the HTML diffs of a history entry are not modelled.             *)
(***************************************************************************)
Put(s, k, v) == [x \in DOMAIN s \cup {k} |-> IF x = k THEN v ELSE s[x]]

Merge(s, r) ==
    [x \in DOMAIN s \cup DOMAIN r |-> IF x \in DOMAIN r THEN r[x] ELSE s[x]]

Remove(s, k) == [x \in DOMAIN s \ {k} |-> s[x]]

history_limit == 500

AppUniformDraws == {1, 2}

format_question(ex_type, price, item) ==
    IF ex_type = "kokia"
    THEN <<"Kokia kaina?", price>>
    ELSE <<"Kiek kainuoja", item, price>>

get_correct_answer(exercise_type, row) ==
    [phrase |-> <<IF exercise_type = "kokia"
                  THEN "kokia_kaina" ELSE "kiek_kainuoja", row.number>>,
     period |-> TRUE]

normalize_answer(answer) == [answer EXCEPT !.period = FALSE]

check_answer(user_answer, correct_answer) ==
    normalize_answer(user_answer) = normalize_answer(correct_answer)

generate_exercise(s, db) ==
    LET r  == rows(db)
        s1 == IF NonEmpty(s) THEN initialize_performance_tracking(s) ELSE s
    IN {[session |-> s1, db |-> r.db, exercise |-> exercise] :
           exercise \in
               IF NonEmpty(s)
               THEN UNION {service_select_exercise(
                               s1["performance"], r.value,
                               default_exploration_rate, u) :
                           u \in AppUniformDraws}
               ELSE RandomExercises(r.value)}

pick_new_question(s, db) ==
    {LET ex_type == g.exercise.exercise_type
         row     == g.exercise.row
     IN [session |->
            Merge(g.session,
                  [exercise_type    |-> ex_type,
                   price            |-> g.exercise.price,
                   item             |-> g.exercise.item,
                   row_id           |-> row.number,
                   grammatical_case |-> IF ex_type = "kiek"
                                        THEN "accusative" ELSE "nominative",
                   number_pattern   |->
                       _determine_number_pattern(row.number),
                   current_question |->
                       format_question(ex_type, g.exercise.price,
                                       g.exercise.item)]),
         db      |-> g.db] :
        g \in generate_exercise(s, db)}

ensure_initialized_afresh(s, db) ==
    LET s1 == [k \in DOMAIN s \cup {"history", "correct_count",
                                    "incorrect_count"} |->
                 IF k \in DOMAIN s THEN s[k]
                 ELSE IF k = "history" THEN <<>> ELSE 0]
        picked == IF "current_question" \notin DOMAIN s1
                  THEN pick_new_question(s1, db)
                  ELSE {[session |-> s1, db |-> db]}
    IN {[session |-> initialize_performance_tracking(
                         Remove(p.session, "performance")),
         db      |-> p.db] : p \in picked}

ensure_initialized(s, db) ==
    LET s1 == [k \in DOMAIN s \cup {"history", "correct_count",
                                    "incorrect_count"} |->
                 IF k \in DOMAIN s THEN s[k]
                 ELSE IF k = "history" THEN <<>> ELSE 0]
        picked == IF "current_question" \notin DOMAIN s1
                  THEN pick_new_question(s1, db)
                  ELSE {[session |-> s1, db |-> db]}
    IN {[session |-> initialize_performance_tracking(p.session),
         db      |-> p.db] : p \in picked}

_update_counters_correct_only(s, is_correct) ==
    IF is_correct
    THEN Put(s, "correct_count", Get(s, "correct_count", 0) + 1)
    ELSE s

_update_counters(s, is_correct) ==
    LET key == IF is_correct THEN "correct_count" ELSE "incorrect_count"
    IN Put(s, key, Get(s, key, 0) + 1)

_update_history(s, user_str, correct_str, is_correct) ==
    LET history_entry == [question    |-> s["current_question"],
                          answer      |-> user_str,
                          correct     |-> is_correct,
                          true_answer |-> correct_str]
        history == Append(Get(s, "history", <<>>), history_entry)
    IN Put(s, "history",
           IF Len(history) > history_limit
           THEN SubSeq(history, Len(history) - history_limit + 1,
                       Len(history))
           ELSE history)

_update_adaptive_learning(s, is_correct) ==
    IF "exercise_type" \notin DOMAIN s \/ "row_id" \notin DOMAIN s
    THEN [session |-> s, raised |-> None, swallowed |-> <<"KeyError">>]
    ELSE LET exercise_info ==
                 [exercise_type    |-> s["exercise_type"],
                  grammatical_case |-> Get(s, "grammatical_case", None),
                  number_pattern   |-> Get(s, "number_pattern", None),
                  row_id           |-> s["row_id"]]
             r == update_performance(s, exercise_info, is_correct)
         IN [session   |-> r.session,
             raised    |-> None,
             swallowed |-> IF r.raised = None THEN <<>> ELSE <<r.raised>>]

reset(s, db) ==
    LET feedback_data == Get(s, "feedback_data", EmptyDict)
        kept == IF DOMAIN feedback_data # {}
                THEN [feedback_data |-> feedback_data]
                ELSE EmptyDict
    IN pick_new_question(
           initialize_performance_tracking(Put(kept, "history", <<>>)), db)

record_answer(s, user_answer, correct_answer, db) ==
    LET is_correct == check_answer(user_answer, correct_answer)
        s1 == _update_counters(s, is_correct)
    IN IF "current_question" \notin DOMAIN s1
       THEN {[session |-> p.session, db |-> p.db,
              swallowed |-> <<"KeyError">>] : p \in reset(s1, db)}
       ELSE LET s2 == _update_history(s1, user_answer, correct_answer,
                                      is_correct)
                a  == _update_adaptive_learning(s2, is_correct)
            IN {[session |-> p.session, db |-> p.db,
                 swallowed |-> a.swallowed] :
                   p \in pick_new_question(a.session, db)}

(***************************************************************************)
(* The routes of main.py on the session dict sess that get_session gave    *)
(* them: /, /reset and /answer up to (not including) save_session.         *)
(***************************************************************************)
main_page(sess, db) ==
    {LET feedback_data == Get(e.session, "feedback_data", EmptyDict)
     IN [session   |-> IF Get(feedback_data, "show", FALSE)
                       THEN Put(e.session, "feedback_data",
                                [feedback_data EXCEPT !.show = FALSE])
                       ELSE e.session,
         db        |-> e.db,
         swallowed |-> <<>>] :
        e \in ensure_initialized(initialize_performance_tracking(sess), db)}

reset_progress(sess, db) ==
    {[session |-> p.session, db |-> p.db, swallowed |-> <<>>] :
        p \in reset(Remove(initialize_performance_tracking(sess),
                           "performance"), db)}

submit_answer(sess, db, user_answer) ==
    LET m == initialize_performance_tracking(sess)
    IN IF ~("row_id" \in DOMAIN m /\ "exercise_type" \in DOMAIN m)
       THEN {[session |-> e.session, db |-> e.db, swallowed |-> <<>>] :
                e \in ensure_initialized(m, db)}
       ELSE LET found == get_row_by_number(db, m["row_id"])
            IN IF found.raised # None
               THEN {[session |-> p.session, db |-> p.db,
                      swallowed |-> <<found.raised>>] :
                        p \in reset(m, found.db)}
               ELSE LET correct_answer ==
                            get_correct_answer(m["exercise_type"], found.row)
                        is_correct ==
                            check_answer(user_answer, correct_answer)
                        m1 == Put(m, "feedback_data",
                                  [is_correct     |-> is_correct,
                                   user_answer    |-> user_answer,
                                   correct_answer |-> correct_answer,
                                   show           |-> TRUE])
                    IN record_answer(m1, user_answer, correct_answer,
                                     found.db)

(***************************************************************************)
(* session_manager.py: the sessions table (id -> data, last_access) and    *)
(* the number of ids handed out so far (uuid4 never repeats an id).        *)
(* Time is counted in steps of TickSeconds seconds.                        *)
(***************************************************************************)
NoCookie == 0

max_age == 86400

TickSeconds == 86401

json_dumps(session_data) ==
    [k \in DOMAIN session_data |->
       IF k = "performance"
       THEN json_dumps_performance(session_data[k])
       ELSE session_data[k]]

json_loads(data) ==
    [k \in DOMAIN data |->
       IF k = "performance"
       THEN json_loads_performance(data[k])
       ELSE data[k]]

get_session(store, session_id, time) ==
    IF session_id # NoCookie /\ session_id \in DOMAIN store.table
    THEN [store      |-> [store EXCEPT
                            !.table[session_id].last_access = time],
          session    |-> json_loads(store.table[session_id].data),
          session_id |-> session_id]
    ELSE LET new_id == store.issued + 1
         IN [store      |-> [table  |->
                                [i \in DOMAIN store.table \cup {new_id} |->
                                   IF i = new_id
                                   THEN [data        |-> json_dumps(EmptyDict),
                                         last_access |-> time]
                                   ELSE store.table[i]],
                             issued |-> new_id],
             session    |-> EmptyDict,
             session_id |-> new_id]

save_session_every_row(store, session_id, session_data, time) ==
    IF session_id \in DOMAIN store.table
    THEN [store EXCEPT !.table =
             [i \in DOMAIN @ |->
                [data        |-> json_dumps(session_data),
                 last_access |-> IF i = session_id
                                 THEN time ELSE @[i].last_access]]]
    ELSE store

save_session(store, session_id, session_data, time) ==
    IF session_id \in DOMAIN store.table
    THEN [store EXCEPT !.table[session_id] =
             [data |-> json_dumps(session_data), last_access |-> time]]
    ELSE store

cleanup_old_sessions(store, time) ==
    LET cutoff_time == time * TickSeconds - max_age
    IN [store EXCEPT !.table =
          [i \in {j \in DOMAIN @ :
                     ~(@[j].last_access * TickSeconds < cutoff_time)} |->
             @[i]]]

(***************************************************************************)
(* The browsers: each keeps the cookie of its last response and has at     *)
(* most one request under way.                                             *)
(***************************************************************************)
Clients == {"a", "b"}

RequestKinds == {"page", "answer", "reset"}

WrongAnswer == [phrase |-> <<"nezinau", 0>>, period |-> FALSE]

UserAnswers(sess, db) ==
    {WrongAnswer} \cup
    (IF "row_id" \in DOMAIN sess /\ "exercise_type" \in DOMAIN sess
     THEN LET found == get_row_by_number(db, sess["row_id"])
          IN IF found.raised = None
             THEN {normalize_answer(
                       get_correct_answer(sess["exercise_type"], found.row))}
             ELSE {}
     ELSE {})

Answered(sess) ==
    Get(sess, "correct_count", 0) + Get(sess, "incorrect_count", 0)

HostInit ==
    /\ engine = ExerciseEngine(Rows)
    /\ db_service = DatabaseService
    /\ user_progress = <<>>
    /\ sessions_db = [table |-> <<>>, issued |-> 0]
    /\ clients = [c \in Clients |-> [pc |-> "idle", cookie |-> NoCookie]]
    /\ now = 0

Init ==
    /\ session = EmptyDict
    /\ calls = 0
    /\ last = [op |-> "none"]
    /\ HostInit

(***************************************************************************)
(* One action per call of the selector's API.                              *)
(***************************************************************************)
InitTracking ==
    /\ session' = init_tracking(session)
    /\ last' = [op |-> "init_tracking"]
    /\ UNCHANGED <<calls, hostVars>>

Update ==
    /\ calls < MaxUpdates
    /\ \E exercise_info \in UpdateInputs, is_correct \in BOOLEAN :
          LET r == update(session, exercise_info, is_correct)
          IN /\ session' = r.session
             /\ last' = [op            |-> "update",
                         exercise_info |-> exercise_info,
                         is_correct    |-> is_correct,
                         raised        |-> r.raised]
    /\ calls' = calls + 1
    /\ UNCHANGED hostVars

SelectExercise ==
    \E exploration_rate \in ExplorationRates, u \in UniformDraws :
       LET s0 == init_tracking(session)
       IN /\ session' = s0
          /\ UNCHANGED <<calls, hostVars>>
          /\ \E r \in select_exercise(s0["performance"],
                                      exploration_rate, u) :
                last' = Merge([op               |-> "select_exercise",
                               exploration_rate |-> exploration_rate,
                               u                |-> u], r)

GetWeakAreas ==
    /\ last' = [op |-> "get_weak_areas", result |-> get_weak_areas(session)]
    /\ UNCHANGED <<session, calls, hostVars>>

Next ==
    \/ InitTracking
    \/ Update
    \/ SelectExercise
    \/ GetWeakAreas

Spec == Init /\ [][Next]_vars

(***************************************************************************)
(* Classification of a number: the input is drawn at the start and both    *)
(* classifiers are applied to it.                                          *)
(***************************************************************************)
InitClassify ==
    /\ session = EmptyDict
    /\ calls = 0
    /\ last \in {[op |-> "number", n |-> n] : n \in 0..MaxNumber}
    /\ HostInit

Classify ==
    /\ last.op = "number"
    /\ last' = [op              |-> "number_pattern",
                n               |-> last.n,
                pattern         |-> number_pattern(last.n),
                service_pattern |-> _determine_number_pattern(last.n)]
    /\ UNCHANGED <<session, calls, hostVars>>

NextClassify == Classify

SpecClassify == InitClassify /\ [][NextClassify]_vars

(***************************************************************************)
(* The weak-area report over all four number patterns: updates that name   *)
(* any pattern, in any order, each followed or not by get_weak_areas.      *)
(***************************************************************************)
ReportInfos ==
    {ExerciseInfo("kokia", np_, "nominative") :
        np_ \in {"single_digit", "teens", "decade", "compound"}}

UpdateReport ==
    /\ calls < MaxReportUpdates
    /\ \E exercise_info \in ReportInfos, is_correct \in BOOLEAN :
          LET r == update(session, exercise_info, is_correct)
          IN /\ session' = r.session
             /\ last' = [op            |-> "update",
                         exercise_info |-> exercise_info,
                         is_correct    |-> is_correct,
                         raised        |-> r.raised]
    /\ calls' = calls + 1
    /\ UNCHANGED hostVars

NextReport ==
    \/ UpdateReport
    \/ GetWeakAreas

SpecReport == Init /\ [][NextReport]_vars

(***************************************************************************)
(* Row lookups: ExerciseEngine.get_row and                                  *)
(* DatabaseService.get_row_by_number, called with any number.              *)
(***************************************************************************)
LookupNumbers == 0..MaxLookup

GetRow ==
    /\ \E number \in LookupNumbers :
          last' = [op     |-> "get_row",
                   number |-> number,
                   result |-> get_row(engine, number)]
    /\ UNCHANGED <<session, calls, engine, user_progress>>
    /\ UNCHANGED <<db_service, sessions_db, clients, now>>

GetRowByNumber ==
    /\ \E number \in LookupNumbers :
          LET r == get_row_by_number(db_service, number)
          IN /\ db_service' = r.db
             /\ last' = [op     |-> "get_row_by_number",
                         number |-> number,
                         result |-> [k \in DOMAIN r \ {"db"} |-> r[k]]]
    /\ UNCHANGED <<session, calls, engine, user_progress>>
    /\ UNCHANGED <<sessions_db, clients, now>>

NextLookup ==
    \/ GetRow
    \/ GetRowByNumber

SpecLookup == Init /\ [][NextLookup]_vars

(***************************************************************************)
(* Saved progress: the selector's calls on a session, with save_progress   *)
(* and load_progress of that session in between.                           *)
(***************************************************************************)
ProgressInfos ==
    PlainInfos \cup {ExerciseInfo("kiek", "decade", "accusative")}

UpdateProgress ==
    /\ calls < MaxProgressUpdates
    /\ \E exercise_info \in ProgressInfos, is_correct \in BOOLEAN :
          LET r == update(session, exercise_info, is_correct)
          IN /\ session' = r.session
             /\ last' = [op            |-> "update",
                         exercise_info |-> exercise_info,
                         is_correct    |-> is_correct,
                         raised        |-> r.raised]
    /\ calls' = calls + 1
    /\ UNCHANGED hostVars

SaveProgress ==
    /\ user_progress' = <<save_progress(session)>>
    /\ last' = [op |-> "save_progress", session |-> session]
    /\ UNCHANGED <<session, calls, engine, db_service>>
    /\ UNCHANGED <<sessions_db, clients, now>>

LoadProgress ==
    /\ session' = load_progress(user_progress, session)
    /\ last' = [op |-> "load_progress", found |-> user_progress # <<>>]
    /\ UNCHANGED <<calls, engine, db_service, user_progress>>
    /\ UNCHANGED <<sessions_db, clients, now>>

NextProgress ==
    \/ InitTracking
    \/ UpdateProgress
    \/ GetWeakAreas
    \/ SaveProgress
    \/ LoadProgress

SpecProgress == Init /\ [][NextProgress]_vars

(***************************************************************************)
(* The request flow of main.py.  A request is two steps: get_session (and, *)
(* for a page view, the cleanup that maybe_cleanup_sessions runs or not),  *)
(* then the route's work on its own copy of the session, save_session and  *)
(* the response that sets the cookie.  Nothing but the sessions table and  *)
(* the DatabaseService caches are shared between requests.  Time advances  *)
(* while no request is under way.  The catalog of this flow has one row;   *)
(* browser "a" sends every kind of request, browser "b" page views and     *)
(* answers.                                                                *)
(***************************************************************************)
AppCatalog == <<Row(5)>>

InitApp ==
    /\ session = EmptyDict
    /\ calls = 0
    /\ last = [op |-> "none"]
    /\ engine = ExerciseEngine(Rows)
    /\ db_service = [DatabaseService EXCEPT !.numbers = AppCatalog]
    /\ user_progress = <<>>
    /\ sessions_db = [table |-> <<>>, issued |-> 0]
    /\ clients = [c \in Clients |-> [pc |-> "idle", cookie |-> NoCookie]]
    /\ now = 0

KindsOf(c) == IF c = "a" THEN RequestKinds ELSE {"page", "answer"}

StartRequest(c) ==
    /\ clients[c].pc = "idle"
    /\ \E kind \in KindsOf(c), cleanup \in BOOLEAN :
          LET g == get_session(sessions_db, clients[c].cookie, now)
          IN /\ g.store.issued <= MaxSessionIds
             /\ kind = "answer" => calls < MaxAnswers
             /\ calls' = IF kind = "answer" THEN calls + 1 ELSE calls
             /\ cleanup => kind = "page"
             /\ sessions_db' = IF cleanup
                               THEN cleanup_old_sessions(g.store, now)
                               ELSE g.store
             /\ clients' = [clients EXCEPT ![c] =
                               [pc         |-> "handling",
                                cookie     |-> clients[c].cookie,
                                kind       |-> kind,
                                session_id |-> g.session_id,
                                sess       |-> g.session]]
    /\ UNCHANGED <<session, last, engine, db_service, user_progress, now>>

FinishRequest(c) ==
    /\ clients[c].pc = "handling"
    /\ \E o \in CASE clients[c].kind = "page" ->
                      main_page(clients[c].sess, db_service)
                 [] clients[c].kind = "reset" ->
                      reset_progress(clients[c].sess, db_service)
                 [] clients[c].kind = "answer" ->
                      UNION {submit_answer(clients[c].sess, db_service,
                                           user_answer) :
                                user_answer \in
                                    UserAnswers(clients[c].sess,
                                                db_service)} :
          /\ sessions_db' = save_session(sessions_db,
                                         clients[c].session_id,
                                         o.session, now)
          /\ db_service' = o.db
          /\ clients' = [clients EXCEPT ![c] =
                            [pc        |-> "idle",
                             cookie    |-> clients[c].session_id,
                             swallowed |-> o.swallowed]]
    /\ UNCHANGED <<session, calls, last, engine, user_progress, now>>

Tick ==
    /\ \A c \in Clients : clients[c].pc = "idle"
    /\ now < MaxTime
    /\ now' = now + 1
    /\ UNCHANGED <<session, calls, last, engine, db_service,
                   user_progress, sessions_db, clients>>

NextApp ==
    \/ \E c \in Clients : StartRequest(c)
    \/ \E c \in Clients : FinishRequest(c)
    \/ Tick

SpecApp == InitApp /\ [][NextApp]_vars

(***************************************************************************)
(* SessionManager and the /answer handler on a session dict handed to      *)
(* them: no session yet, a session that pick_new_question filled, or such  *)
(* a session whose row_id names no row of the catalog.                     *)
(***************************************************************************)
UnknownRowIds == {7}

ManagerSessions ==
    LET asked == {e.session :
                     e \in ensure_initialized(
                               initialize_performance_tracking(EmptyDict),
                               DatabaseService)}
    IN {EmptyDict} \cup asked
       \cup {Put(s, "row_id", n) : s \in asked, n \in UnknownRowIds}

InitManager ==
    /\ session \in ManagerSessions
    /\ calls = 0
    /\ last = [op |-> "none"]
    /\ HostInit

UpdateAdaptiveLearning ==
    /\ calls < MaxManagerCalls
    /\ \E is_correct \in BOOLEAN :
          LET r == _update_adaptive_learning(
                       initialize_performance_tracking(session), is_correct)
          IN /\ session' = r.session
             /\ last' = [op        |-> "_update_adaptive_learning",
                         before    |-> session,
                         raised    |-> r.raised,
                         swallowed |-> r.swallowed]
    /\ calls' = calls + 1
    /\ UNCHANGED hostVars

SubmitAnswer ==
    /\ calls < MaxManagerCalls
    /\ \E user_answer \in UserAnswers(session, db_service) :
          \E o \in submit_answer(session, db_service, user_answer) :
             /\ session' = o.session
             /\ db_service' = o.db
             /\ last' = [op        |-> "submit_answer",
                         before    |-> session,
                         swallowed |-> o.swallowed]
    /\ calls' = calls + 1
    /\ UNCHANGED <<engine, user_progress, sessions_db, clients, now>>

NextManager ==
    \/ UpdateAdaptiveLearning
    \/ SubmitAnswer

SpecManager == InitManager /\ [][NextManager]_vars

(***************************************************************************)
(* _sample_weakest on its own: an arm mapping of one to MaxArms arms in    *)
(* any insertion order and any draw between 1 and MaxDraw for each arm.    *)
(***************************************************************************)
ArmPool == {"single_digit", "teens", "decade", "compound"}

ArmMappings ==
    UNION {{arms \in [1..n -> {SeedArm(key) : key \in ArmPool}] :
               \A i, j \in 1..n : i # j => arms[i].arm # arms[j].arm} :
           n \in 1..MaxArms}

InitSample ==
    /\ session = EmptyDict
    /\ calls = 0
    /\ last \in UNION {{[op |-> "arms", arms |-> arms, draws |-> draws] :
                           draws \in [DOMAIN arms -> 1..MaxDraw]} :
                       arms \in ArmMappings}
    /\ HostInit

SampleWeakest ==
    /\ last.op = "arms"
    /\ last' = [op     |-> "_sample_weakest",
                arms   |-> last.arms,
                draws  |-> last.draws,
                result |-> _sample_weakest(last.arms, last.draws)]
    /\ UNCHANGED <<session, calls, hostVars>>

NextSample == SampleWeakest

SpecSample == InitSample /\ [][NextSample]_vars

(***************************************************************************)
(* AdaptiveLearningService on a session: update_performance with the       *)
(* exercise_info that SessionManager builds (the case follows the type)    *)
(* and select_exercise over the catalog of the DatabaseService.            *)
(***************************************************************************)
ServiceInfos ==
    {ExerciseInfo("kokia", "teens", "nominative"),
     ExerciseInfo("kiek", "single_digit", "accusative")}

UpdatePerformance ==
    /\ calls < MaxServiceUpdates
    /\ \E exercise_info \in ServiceInfos, is_correct \in BOOLEAN :
          LET r == update_performance(session, exercise_info, is_correct)
          IN /\ session' = r.session
             /\ last' = [op            |-> "update_performance",
                         exercise_info |-> exercise_info,
                         is_correct    |-> is_correct,
                         raised        |-> r.raised]
    /\ calls' = calls + 1
    /\ UNCHANGED hostVars

ServiceSelectExercise ==
    /\ \E u \in AppUniformDraws :
          LET s0 == initialize_performance_tracking(session)
              r  == rows(db_service)
          IN /\ session' = s0
             /\ db_service' = r.db
             /\ \E exercise \in
                      service_select_exercise(s0["performance"], r.value,
                                              default_exploration_rate, u) :
                   last' = [op       |-> "service_select_exercise",
                            u        |-> u,
                            exercise |-> exercise]
    /\ UNCHANGED <<calls, engine, user_progress, sessions_db, clients, now>>

NextService ==
    \/ UpdatePerformance
    \/ ServiceSelectExercise

SpecService == Init /\ [][NextService]_vars

(***************************************************************************)
(* One learner who answers again and again: submit_answer applied to the   *)
(* session of the request before, over the one-row catalog.  The run is    *)
(* one seeded run: every exercise drawn is a kokia exercise and every      *)
(* second answer is the correct one.                                       *)
(***************************************************************************)
InitHistory ==
    /\ session \in {o.session :
                       o \in {p \in main_page(
                                       EmptyDict,
                                       [DatabaseService EXCEPT
                                           !.numbers = AppCatalog]) :
                                 p.session["exercise_type"] = "kokia"}}
    /\ calls = 0
    /\ last = [op |-> "none"]
    /\ engine = ExerciseEngine(Rows)
    /\ db_service = [DatabaseService EXCEPT !.numbers = AppCatalog]
    /\ user_progress = <<>>
    /\ sessions_db = [table |-> <<>>, issued |-> 0]
    /\ clients = [c \in Clients |-> [pc |-> "idle", cookie |-> NoCookie]]
    /\ now = 0

AnswerAgain ==
    /\ calls < MaxHistoryAnswers
    /\ \E user_answer \in {a \in UserAnswers(session, db_service) :
                              (a = WrongAnswer) = (calls % 2 = 1)} :
          \E o \in submit_answer(session, db_service, user_answer) :
             /\ o.session["exercise_type"] = "kokia"
             /\ session' = o.session
             /\ db_service' = o.db
             /\ last' = [op        |-> "submit_answer",
                         before    |-> [row_id |-> session["row_id"]],
                         swallowed |-> o.swallowed]
    /\ calls' = calls + 1
    /\ UNCHANGED <<engine, user_progress, sessions_db, clients, now>>

NextHistory == AnswerAgain

SpecHistory == InitHistory /\ [][NextHistory]_vars

(***************************************************************************)
(* Two tabs of one browser: both send the cookie of the same session,      *)
(* which a page view has stored.  Each answer request is get_session, then *)
(* the work of submit_answer on the copy it read and save_session; the     *)
(* steps of the two requests interleave (the handlers are plain functions  *)
(* that the server runs on worker threads).  calls counts the answers      *)
(* that were handled to the end.                                           *)
(***************************************************************************)
InitTabs ==
    /\ session = EmptyDict
    /\ calls = 0
    /\ last = [op |-> "none"]
    /\ engine = ExerciseEngine(Rows)
    /\ user_progress = <<>>
    /\ now = 0
    /\ \E o \in main_page(EmptyDict,
                          [DatabaseService EXCEPT !.numbers = AppCatalog]) :
          LET g == get_session([table |-> <<>>, issued |-> 0], NoCookie, now)
          IN /\ sessions_db = save_session(g.store, g.session_id,
                                           o.session, now)
             /\ db_service = o.db
             /\ clients = [c \in Clients |->
                              [pc     |-> "idle",
                               cookie |-> g.session_id,
                               sent   |-> 0]]

StartAnswer(c) ==
    /\ clients[c].pc = "idle"
    /\ clients[c].sent < MaxTabAnswers
    /\ LET g == get_session(sessions_db, clients[c].cookie, now)
       IN /\ sessions_db' = g.store
          /\ clients' = [clients EXCEPT ![c] =
                            [pc         |-> "handling",
                             cookie     |-> clients[c].cookie,
                             sent       |-> clients[c].sent + 1,
                             session_id |-> g.session_id,
                             sess       |-> g.session]]
    /\ UNCHANGED <<session, calls, last, engine, db_service,
                   user_progress, now>>

FinishAnswer(c) ==
    /\ clients[c].pc = "handling"
    /\ \E user_answer \in UserAnswers(clients[c].sess, db_service) :
          \E o \in submit_answer(clients[c].sess, db_service, user_answer) :
             /\ sessions_db' = save_session(sessions_db,
                                            clients[c].session_id,
                                            o.session, now)
             /\ db_service' = o.db
    /\ clients' = [clients EXCEPT ![c] =
                      [pc     |-> "idle",
                       cookie |-> clients[c].session_id,
                       sent   |-> clients[c].sent]]
    /\ calls' = calls + 1
    /\ UNCHANGED <<session, last, engine, user_progress, now>>

NextTabs ==
    \/ \E c \in Clients : StartAnswer(c)
    \/ \E c \in Clients : FinishAnswer(c)

SpecTabs == InitTabs /\ [][NextTabs]_vars

(***************************************************************************)
(* Properties.                                                             *)
(***************************************************************************)
HasPerformance == "performance" \in DOMAIN session

Performance == session["performance"]

ArmCategories ==
    {"exercise_types", "number_patterns", "grammatical_cases",
     "combined_arms"}

Selected == last.op = "select_exercise"

Updated == last.op = "update"

(* C1: every arm of the four categories has incorrect >= 1 and             *)
(* correct >= 0, in every state reachable from a fresh session.            *)
C1_ArmsKeepSeed ==
    HasPerformance =>
        \A c \in ArmCategories :
            \A i \in DOMAIN Performance[c] :
                /\ Performance[c][i].incorrect >= 1
                /\ Performance[c][i].correct >= 0

C1_Witness ==
    /\ HasPerformance
    /\ Updated
    /\ \A c \in ArmCategories : NonEmpty(Performance[c])
    /\ \E i \in DOMAIN Performance.combined_arms :
          Performance.combined_arms[i].correct >= 1

(* C2: total_exercises equals the number of update calls made since the    *)
(* record was created (no call has been made while there is no record).    *)
C2_TotalCountsUpdates ==
    IF HasPerformance
    THEN Performance.total_exercises = calls
    ELSE calls = 0

C2_Witness ==
    /\ HasPerformance
    /\ Updated
    /\ calls = adaptation_threshold
    /\ Performance.total_exercises = adaptation_threshold

(* C3: an update with a well-formed exercise_info adds exactly 1 to        *)
(* total_exercises and, in every arm it touches, exactly 1 to the counter  *)
(* named by is_correct, the other counter staying as it was (or at its     *)
(* seed when the arm is new).                                              *)
TouchedArms(exercise_info) ==
    LET ex_type == exercise_info["exercise_type"]
        np_     == Get(exercise_info, "number_pattern", None)
        gc      == Get(exercise_info, "grammatical_case", None)
    IN {<<"exercise_types", ex_type>>}
       \cup (IF Truthy(np_) THEN {<<"number_patterns", np_>>} ELSE {})
       \cup (IF Truthy(gc) THEN {<<"grammatical_cases", gc>>} ELSE {})
       \cup (IF Truthy(np_) /\ Truthy(gc)
             THEN {<<"combined_arms", CombinedKey(ex_type, np_, gc)>>}
             ELSE {})

StatsBefore(perf, c, key) ==
    IF HasArm(perf[c], key)
    THEN ArmOf(perf[c], key)
    ELSE [arm |-> key, correct |-> 0, incorrect |-> 1]

C3_UpdateAddsOne ==
    [][(last'.op = "update" /\ WellFormed(last'.exercise_info)) =>
         LET before == init_tracking(session)["performance"]
             after  == session'["performance"]
         IN /\ after.total_exercises = before.total_exercises + 1
            /\ \A t \in TouchedArms(last'.exercise_info) :
                  LET old == StatsBefore(before, t[1], t[2])
                      new == ArmOf(after[t[1]], t[2])
                  IN /\ HasArm(after[t[1]], t[2])
                     /\ IF last'.is_correct
                        THEN /\ new.correct = old.correct + 1
                             /\ new.incorrect = old.incorrect
                        ELSE /\ new.incorrect = old.incorrect + 1
                             /\ new.correct = old.correct]_vars

C3_Witness ==
    /\ Updated
    /\ WellFormed(last.exercise_info)
    /\ last.raised = None
    /\ \E i \in DOMAIN Performance.combined_arms :
          /\ Performance.combined_arms[i].correct >= 1
          /\ Performance.combined_arms[i].incorrect >= 2

(* C4: init_tracking on a session that already has a performance block    *)
(* leaves the session as it is, and a second call changes nothing the      *)
(* first call did.                                                         *)
C4_InitTrackingIdempotent ==
    [][last'.op = "init_tracking" =>
         /\ HasPerformance => session' = session
         /\ init_tracking(session') = session']_vars

C4_Witness ==
    /\ last.op = "init_tracking"
    /\ HasPerformance
    /\ Performance.total_exercises >= 2
    /\ NonEmpty(Performance.number_patterns)

(* C5: number_pattern(n) is single_digit for 0..9, teens for 10..19,       *)
(* decade for the multiples of 10 from 20 on and compound for every other  *)
(* n, and _determine_number_pattern agrees with it.                        *)
NumberPatterns == {"single_digit", "teens", "decade", "compound"}

ExpectedPattern(n) ==
    CASE n \in 0..9                        -> "single_digit"
      [] n \in 10..19                      -> "teens"
      [] n >= 20 /\ n % 10 = 0             -> "decade"
      [] n >= 20 /\ n % 10 # 0             -> "compound"

C5_NumberPatternPartition ==
    last.op = "number_pattern" =>
        /\ last.pattern \in NumberPatterns
        /\ last.pattern = ExpectedPattern(last.n)
        /\ last.service_pattern = last.pattern

C5_Witness ==
    /\ last.op = "number_pattern"
    /\ last.n = 20
    /\ last.pattern = "decade"

(* C6 as stated: the session after select_exercise equals the session      *)
(* before the call, for every session.                                     *)
C6_SelectLeavesSession ==
    [][last'.op = "select_exercise" => session' = session]_vars

(* C6: select_exercise leaves a session that has a performance block       *)
(* unchanged; on a session without one it adds the fresh block (both       *)
(* exercise types seeded with correct 0, incorrect 1, the other categories *)
(* empty, total_exercises 0) and changes nothing else.                     *)
C6_SelectOnlyInitialises ==
    [][last'.op = "select_exercise" =>
         IF HasPerformance
         THEN session' = session
         ELSE /\ DOMAIN session' = DOMAIN session \cup {"performance"}
              /\ \A k \in DOMAIN session : session'[k] = session[k]
              /\ session'["performance"] =
                    [exercise_types    |->
                        <<[arm |-> "kokia", correct |-> 0, incorrect |-> 1],
                          [arm |-> "kiek", correct |-> 0, incorrect |-> 1]>>,
                     number_patterns   |-> <<>>,
                     grammatical_cases |-> <<>>,
                     combined_arms     |-> <<>>,
                     total_exercises   |-> 0]]_vars

C6_Witness ==
    /\ Selected
    /\ HasPerformance
    /\ Performance.total_exercises >= 1
    /\ NonEmpty(Performance.combined_arms)

(* C7: select_exercise takes the exploit branch only when u is not below   *)
(* exploration_rate and total_exercises has reached the threshold of 10;   *)
(* with fewer than 10 updates every call explores, whatever the rate, and  *)
(* the call always completes with a row of the catalog.                    *)
C7_ExploitOnlyPastThreshold ==
    /\ ENABLED SelectExercise
    /\ Selected =>
          /\ last.mode \in {"explore", "exploit"}
          /\ last.exercise.row \in Range(Rows)
          /\ last.mode = "exploit" =>
                /\ last.u >= last.exploration_rate
                /\ Performance.total_exercises >= 10
          /\ Performance.total_exercises < 10 => last.mode = "explore"

C7_Witness ==
    /\ Selected
    /\ last.mode = "exploit"
    /\ last.u >= last.exploration_rate
    /\ Performance.total_exercises = 10

(* C8: every exercise select_exercise returns has grammatical_case         *)
(* accusative when its exercise_type is kiek and nominative otherwise, and *)
(* an item of the vocabulary exactly when its exercise_type is kiek (None  *)
(* otherwise).                                                             *)
C8_CaseAndItemFollowType ==
    Selected =>
        IF last.exercise.exercise_type = "kiek"
        THEN /\ last.exercise.grammatical_case = "accusative"
             /\ last.exercise.item \in Range(ITEMS)
        ELSE /\ last.exercise.grammatical_case = "nominative"
             /\ last.exercise.item = None

C8_Witness ==
    /\ Selected
    /\ last.mode = "exploit"
    /\ last.exercise.exercise_type = "kiek"
    /\ last.exercise.item = "kepure"

(* C10: get_weak_areas on a session without a performance block returns    *)
(* the empty mapping and leaves the session without one.                   *)
C10_WeakAreasEmptyWithoutRecord ==
    [][(last'.op = "get_weak_areas" /\ ~HasPerformance) =>
         /\ last'.result = <<>>
         /\ session' = session]_vars

C10_Witness ==
    /\ last.op = "get_weak_areas"
    /\ ~HasPerformance
    /\ last.result = <<>>

(* C11: get_weak_areas (of the selector and of the service) reports an arm *)
(* only if its correct + incorrect > 1, a category label is in the result  *)
(* exactly when one of its arms qualifies, and a record that has seen no   *)
(* update gives the empty mapping.                                         *)
Qualifying(key) ==
    {i \in DOMAIN Performance[key] :
        Performance[key][i].correct + Performance[key][i].incorrect > 1}

C11_WeakAreasNeedData ==
    (last.op = "get_weak_areas" /\ HasPerformance) =>
        /\ service_get_weak_areas(session) = last.result
        /\ \A i \in DOMAIN last.result :
              \E n \in DOMAIN Categories :
                 last.result[i].label = Categories[n].label
        /\ \A n \in DOMAIN Categories :
              LET key     == Categories[n].key
                  entries == {i \in DOMAIN last.result :
                                last.result[i].label = Categories[n].label}
              IN /\ Cardinality(entries) <= 1
                 /\ (entries # {}) <=> (Qualifying(key) # {})
                 /\ \A i \in entries :
                       \A j \in DOMAIN last.result[i].areas :
                          \E a \in Qualifying(key) :
                             Performance[key][a].arm =
                                last.result[i].areas[j].name
        /\ calls = 0 => last.result = <<>>

C11_Witness ==
    /\ last.op = "get_weak_areas"
    /\ HasPerformance
    /\ \E i \in DOMAIN last.result :
          last.result[i].label = "Number Patterns"
    /\ \E i \in DOMAIN Performance.exercise_types :
          /\ Performance.exercise_types[i].correct = 0
          /\ Performance.exercise_types[i].incorrect = 1
          /\ \A j \in DOMAIN last.result :
                \A k \in DOMAIN last.result[j].areas :
                   last.result[j].areas[k].name #
                      Performance.exercise_types[i].arm

(* C17: an update whose exercise_info names an arm that does not exist yet *)
(* completes without error and leaves that arm at (1,1) after a correct    *)
(* answer and at (0,2) after an incorrect one; every arm that existed and  *)
(* is not named by exercise_info is as it was.                             *)
C17_UpdateCreatesMissingArm ==
    [][(last'.op = "update" /\ WellFormed(last'.exercise_info)) =>
         LET before  == init_tracking(session)["performance"]
             after   == session'["performance"]
             touched == TouchedArms(last'.exercise_info)
         IN /\ last'.raised = None
            /\ \A t \in touched :
                  ~HasArm(before[t[1]], t[2]) =>
                     /\ HasArm(after[t[1]], t[2])
                     /\ ArmOf(after[t[1]], t[2]) =
                           IF last'.is_correct
                           THEN [arm |-> t[2], correct |-> 1, incorrect |-> 1]
                           ELSE [arm |-> t[2], correct |-> 0, incorrect |-> 2]
            /\ \A c \in ArmCategories :
                  \A i \in DOMAIN before[c] :
                     <<c, before[c][i].arm>> \notin touched =>
                        /\ i \in DOMAIN after[c]
                        /\ after[c][i] = before[c][i]]_vars

C17_Witness ==
    /\ Updated
    /\ last.raised = None
    /\ last.exercise_info["exercise_type"] = "foo"
    /\ HasArm(Performance.exercise_types, "foo")
    /\ ArmOf(Performance.exercise_types, "foo") =
          [arm |-> "foo", correct |-> 1, incorrect |-> 1]
    /\ ArmOf(Performance.exercise_types, "kokia") =
          [arm |-> "kokia", correct |-> 0, incorrect |-> 1]
    /\ ArmOf(Performance.number_patterns, "teens") =
          [arm |-> "teens", correct |-> 1, incorrect |-> 1]

(* C19: an update (update of the selector, update_performance of the       *)
(* service) changes number_patterns only in the arm of a given             *)
(* number_pattern, grammatical_cases only in the arm of a given            *)
(* grammatical_case, and combined_arms only when both are given, in the    *)
(* arm named type_pattern_case; combined_arms stays as it was otherwise.   *)
C19_OptionalArmsFollowInfo ==
    [][(last'.op = "update" /\ WellFormed(last'.exercise_info)) =>
         LET info    == last'.exercise_info
             before  == init_tracking(session)["performance"]
             after   == session'["performance"]
             np_     == Get(info, "number_pattern", None)
             gc      == Get(info, "grammatical_case", None)
             OnlyArm(c, key) ==
                 /\ HasArm(after[c], key)
                 /\ ArmOf(after[c], key).correct
                       + ArmOf(after[c], key).incorrect
                     = StatsBefore(before, c, key).correct
                       + StatsBefore(before, c, key).incorrect + 1
                 /\ \A i \in DOMAIN after[c] :
                       after[c][i].arm # key =>
                          /\ i \in DOMAIN before[c]
                          /\ after[c][i] = before[c][i]
         IN /\ update_performance(session, info, last'.is_correct).session
                  = session'
            /\ IF Truthy(np_)
               THEN OnlyArm("number_patterns", np_)
               ELSE after.number_patterns = before.number_patterns
            /\ IF Truthy(gc)
               THEN OnlyArm("grammatical_cases", gc)
               ELSE after.grammatical_cases = before.grammatical_cases
            /\ IF Truthy(np_) /\ Truthy(gc)
               THEN OnlyArm("combined_arms",
                            CombinedKey(info["exercise_type"], np_, gc))
               ELSE after.combined_arms = before.combined_arms
            /\ info = ExerciseInfo("kokia", "single_digit", "nominative") =>
                  HasArm(after.combined_arms, "kokia_single_digit_nominative")
            /\ info = ExerciseInfo("kiek", "decade", "accusative") =>
                  HasArm(after.combined_arms, "kiek_decade_accusative")]_vars

C19_Witness ==
    /\ Updated
    /\ last.raised = None
    /\ "number_pattern" \notin DOMAIN last.exercise_info
    /\ "grammatical_case" \notin DOMAIN last.exercise_info
    /\ Performance.total_exercises = 1
    /\ Performance.number_patterns = <<>>
    /\ Performance.grammatical_cases = <<>>
    /\ Performance.combined_arms = <<>>

C19_WitnessBoth ==
    /\ Updated
    /\ last.exercise_info = ExerciseInfo("kiek", "decade", "accusative")
    /\ HasArm(Performance.combined_arms, "kiek_decade_accusative")

C19_WitnessCaseOnly ==
    /\ Updated
    /\ last.exercise_info = ExerciseInfo("kiek", None, "accusative")
    /\ HasArm(Performance.grammatical_cases, "accusative")
    /\ Performance.number_patterns = <<>>
    /\ Performance.combined_arms = <<>>

(* C20: in the exploit branch of select_exercise the returned row is a row *)
(* of the catalog; it has the sampled number pattern whenever some catalog *)
(* row has it, and is some catalog row when none has; the returned         *)
(* number_pattern is the pattern of the returned row's number.             *)
C20_ExploitRowFromCatalog ==
    (Selected /\ last.mode = "exploit") =>
        /\ last.exercise.row \in Range(Rows)
        /\ (\E r \in Range(Rows) :
               ExpectedPattern(r.number) = last.sampled_pattern) =>
              ExpectedPattern(last.exercise.row.number) = last.sampled_pattern
        /\ last.exercise.number_pattern =
              ExpectedPattern(last.exercise.row.number)

C20_Witness ==
    /\ Selected
    /\ last.mode = "exploit"
    /\ last.sampled_pattern = "decade"
    /\ last.exercise.row.number = 15
    /\ last.exercise.number_pattern = "teens"

C20_WitnessMatch ==
    /\ Selected
    /\ last.mode = "exploit"
    /\ last.sampled_pattern = "single_digit"
    /\ NonEmpty(Performance.number_patterns)
    /\ Len(Performance.number_patterns) = 2
    /\ last.exercise.row.number = 5

(* C12: every list get_weak_areas reports has at most 3 entries, each      *)
(* carrying correct / (correct + incorrect) of its arm, in non-decreasing  *)
(* order of that rate, and no qualifying arm left out of the list has a    *)
(* rate strictly below the rate of an arm in the list.                     *)
KeyOfLabel(label) ==
    Categories[CHOOSE n \in DOMAIN Categories :
                  Categories[n].label = label].key

C12_WeakestThreeInOrder ==
    (last.op = "get_weak_areas" /\ HasPerformance) =>
        \A i \in DOMAIN last.result :
           LET areas == last.result[i].areas
               cat   == Performance[KeyOfLabel(last.result[i].label)]
               names == {areas[j].name : j \in DOMAIN areas}
           IN /\ Len(areas) <= 3
              /\ \A j \in DOMAIN areas :
                    /\ HasArm(cat, areas[j].name)
                    /\ areas[j].success_rate.num
                          * (ArmOf(cat, areas[j].name).correct
                             + ArmOf(cat, areas[j].name).incorrect)
                       = ArmOf(cat, areas[j].name).correct
                          * areas[j].success_rate.den
              /\ \A j \in 1..(Len(areas) - 1) :
                    areas[j].success_rate.num * areas[j + 1].success_rate.den
                       <= areas[j + 1].success_rate.num
                             * areas[j].success_rate.den
              /\ \A a \in DOMAIN cat :
                    (cat[a].correct + cat[a].incorrect > 1
                     /\ cat[a].arm \notin names) =>
                       \A j \in DOMAIN areas :
                          ~(cat[a].correct * areas[j].success_rate.den
                              < areas[j].success_rate.num
                                  * (cat[a].correct + cat[a].incorrect))

C12_Witness ==
    /\ last.op = "get_weak_areas"
    /\ HasPerformance
    /\ Len(Performance.number_patterns) = 4
    /\ \E i \in DOMAIN last.result :
          /\ last.result[i].label = "Number Patterns"
          /\ Len(last.result[i].areas) = 3
          /\ last.result[i].areas[1].name = Performance.number_patterns[4].arm
          /\ last.result[i].areas[1].success_rate.num = 0
          /\ last.result[i].areas[3].success_rate.num > 0
          /\ last.result[i].areas[3].name = Performance.number_patterns[2].arm

(* C15: a lookup by number (get_row, get_row_by_number) returns the        *)
(* catalog row whose number is the argument when the catalog has one, and  *)
(* raises without returning a row when it has none; no lookup changes the  *)
(* catalog.                                                                *)
LookedUp == last.op \in {"get_row", "get_row_by_number"}

C15_LookupFindsOrFails ==
    /\ engine.rows = Rows
    /\ db_service.numbers = Rows
    /\ db_service._rows_cache \in {<<>>, <<Rows>>}
    /\ LookedUp =>
          IF \E i \in DOMAIN Rows : Rows[i].number = last.number
          THEN /\ last.result.raised = None
               /\ last.result.row \in Range(Rows)
               /\ last.result.row.number = last.number
          ELSE /\ last.result.raised \in {"KeyError", "ValueError"}
               /\ "row" \notin DOMAIN last.result

C15_Witness ==
    /\ last.op = "get_row_by_number"
    /\ last.number = 7
    /\ last.result.raised = "ValueError"
    /\ 15 \in DOMAIN db_service._row_by_number_cache
    /\ db_service._row_by_number_cache[15] = Row(15)

C15_WitnessEngine ==
    /\ last.op = "get_row"
    /\ last.number = 5
    /\ last.result.row = Row(5)

(* C16: a session restored by load_progress right after save_progress has  *)
(* a performance record equal to the one that was saved (present exactly   *)
(* when it was present), and update, select_exercise and get_weak_areas    *)
(* do on the restored session what they do on the original.                *)
C16_RoundTripKeepsRecord ==
    [][(last.op = "save_progress" /\ last'.op = "load_progress") =>
         LET original == last.session
             restored == session'
         IN /\ ("performance" \in DOMAIN restored)
                  = ("performance" \in DOMAIN original)
            /\ "performance" \in DOMAIN original =>
                  restored["performance"] = original["performance"]
            /\ select_exercise_raises(restored)
                  = select_exercise_raises(original)
            /\ get_weak_areas(restored) = get_weak_areas(original)
            /\ \A exercise_info \in PlainInfos, is_correct \in BOOLEAN :
                  LET a == update(original, exercise_info, is_correct)
                      b == update(restored, exercise_info, is_correct)
                  IN /\ a.raised = b.raised
                     /\ a.session["performance"]
                           = b.session["performance"]]_vars

(* C16 (part that holds): when the saved session had a performance block,  *)
(* the block restored by load_progress equals it.                          *)
C16_InitialisedRoundTrip ==
    [][(last.op = "save_progress" /\ last'.op = "load_progress"
        /\ "performance" \in DOMAIN last.session) =>
         session'["performance"] = last.session["performance"]]_vars

C16_Witness ==
    /\ last.op = "load_progress"
    /\ HasPerformance
    /\ Performance # EmptyDict
    /\ Len(Performance.combined_arms) = 2

(***************************************************************************)
(* The request flow: what the sessions table holds for a session id, and   *)
(* which browser's request a step belongs to.                              *)
(***************************************************************************)
StoredSession(store, t) == json_loads(store.table[t].data)

LearnerData(store, t) ==
    LET data == store.table[t].data
    IN [k \in DOMAIN data \cap {"performance", "correct_count",
                                "incorrect_count", "history"} |-> data[k]]

Acting(c) == clients'[c] # clients[c]

RequestId(c) ==
    IF clients[c].pc = "idle"
    THEN clients'[c].session_id
    ELSE clients[c].session_id

IdleTooLong(t) ==
    (now - sessions_db.table[t].last_access) * TickSeconds > max_age

PageViewOfAnother(t) ==
    \E c \in Clients :
       /\ Acting(c)
       /\ clients'[c].pc = "handling"
       /\ clients'[c].kind = "page"
       /\ clients'[c].session_id # t

Lowered(p, q) ==
    \/ q.total_exercises < p.total_exercises
    \/ \E category \in ArmCategories :
          \E i \in DOMAIN p[category] :
             LET arm == p[category][i]
             IN \/ ~HasArm(q[category], arm.arm)
                \/ ArmOf(q[category], arm.arm).correct < arm.correct
                \/ ArmOf(q[category], arm.arm).incorrect < arm.incorrect

Cleared(t) ==
    /\ "performance" \in DOMAIN sessions_db.table[t].data
    /\ \/ t \notin DOMAIN sessions_db'.table
       \/ /\ sessions_db'.table[t].data # sessions_db.table[t].data
          /\ \/ "performance" \notin DOMAIN sessions_db'.table[t].data
             \/ Lowered(StoredSession(sessions_db, t)["performance"],
                        StoredSession(sessions_db', t)["performance"])

ResetOf(t) ==
    \E c \in Clients :
       /\ clients[c].pc = "handling"
       /\ clients[c].kind = "reset"
       /\ clients[c].session_id = t
       /\ clients'[c].pc = "idle"

C14_ErrorsSurfaced ==
    last.op \in {"_update_adaptive_learning", "submit_answer"} =>
       last.swallowed = <<>>

(* C14 (what the handlers do): _update_adaptive_learning on a session      *)
(* without exercise_type catches the KeyError and leaves the record as it  *)
(* was; submit_answer on a row_id that is not in the catalog catches the   *)
(* ValueError of get_row_by_number and answers with a reset session.       *)
C14_HandlersSwallow ==
    /\ (last.op = "_update_adaptive_learning"
        /\ "exercise_type" \notin DOMAIN last.before) =>
          /\ last.raised = None
          /\ last.swallowed = <<"KeyError">>
          /\ session = initialize_performance_tracking(last.before)
    /\ (last.op = "submit_answer"
        /\ "row_id" \in DOMAIN last.before
        /\ last.before["row_id"] \in UnknownRowIds) =>
          /\ last.swallowed = <<"ValueError">>
          /\ session["history"] = <<>>
          /\ session["performance"].total_exercises = 0
          /\ session["row_id"] \notin UnknownRowIds

(* C21: _sample_weakest over a non-empty arm mapping returns a key of the  *)
(* mapping whose draw is minimal over all arms, and among the arms that    *)
(* share the minimal draw the one that comes first in iteration order.     *)
C21_WeakestIsFirstMinimal ==
    last.op = "_sample_weakest" =>
       \E i \in DOMAIN last.arms :
          /\ last.result = last.arms[i].arm
          /\ \A k \in DOMAIN last.arms : last.draws[i] <= last.draws[k]
          /\ \A k \in DOMAIN last.arms :
                last.draws[k] = last.draws[i] => i <= k

C21_Witness ==
    /\ last.op = "_sample_weakest"
    /\ Len(last.arms) = 3
    /\ last.draws = <<2, 1, 1>>
    /\ last.result = last.arms[2].arm

(* C22: in AdaptiveLearningService every exercise that select_exercise     *)
(* returns, for a record reachable through update_performance, has         *)
(* grammatical_case accusative when its exercise_type is kiek and          *)
(* nominative when it is kokia: the exploit branch does not sample the     *)
(* grammatical case on its own.                                            *)
C22_ServiceCaseFollowsType ==
    last.op = "service_select_exercise" =>
       last.exercise.grammatical_case =
          IF last.exercise.exercise_type = "kiek"
          THEN "accusative" ELSE "nominative"

(* C23: for every combined key that update_performance builds as           *)
(* type_pattern_case, split('_', 2) gives back the number pattern and the  *)
(* grammatical case the key was built from.                                *)
C23_SplitGivesBackPatternAndCase ==
    (/\ last.op = "update_performance"
     /\ Truthy(Get(last.exercise_info, "number_pattern", None))
     /\ Truthy(Get(last.exercise_info, "grammatical_case", None))) =>
       LET combined_key ==
               CombinedKey(last.exercise_info["exercise_type"],
                           last.exercise_info["number_pattern"],
                           last.exercise_info["grammatical_case"])
           parts == split_2(combined_key)
       IN /\ HasArm(Performance.combined_arms, combined_key)
          /\ Len(parts) = 3
          /\ parts[2] = last.exercise_info["number_pattern"]
          /\ parts[3] = last.exercise_info["grammatical_case"]

CombinedVariants(perf) ==
    {<<>>,
     <<SeedArm(CombinedKey("kiek", "decade", "accusative"))>>,
     [i \in DOMAIN perf.combined_arms |->
        [perf.combined_arms[i] EXCEPT !.correct = @ + 5]]}

(* C24: combined_arms is recorded but never sampled: for two records that  *)
(* differ only in combined_arms, AdaptiveLearning.select_exercise has the  *)
(* same possible results under the same exploration rate and uniform draw. *)
C24_SelectionIgnoresCombinedArms ==
    HasPerformance =>
       \A exploration_rate \in ExplorationRates, u \in UniformDraws :
          \A combined \in CombinedVariants(Performance) :
             select_exercise([Performance EXCEPT !.combined_arms = combined],
                             exploration_rate, u)
                = select_exercise(Performance, exploration_rate, u)

C24_Witness ==
    /\ Selected
    /\ last.mode = "exploit"
    /\ Len(Performance.combined_arms) = 2
    /\ Performance.total_exercises >= adaptation_threshold

RECURSIVE Observed(_)
Observed(category) ==
    IF category = <<>>
    THEN 0
    ELSE Head(category).correct + Head(category).incorrect - 1
            + Observed(Tail(category))

Balanced(perf) ==
    /\ Observed(perf.exercise_types) = perf.total_exercises
    /\ Observed(perf.number_patterns) <= perf.total_exercises
    /\ Observed(perf.grammatical_cases) <= perf.total_exercises
    /\ Observed(perf.combined_arms) <= perf.total_exercises

(* C25: every record reachable from init_tracking by successful update     *)
(* calls is balanced: the observations on the exercise_types arms (correct *)
(* + incorrect - 1 per arm) add up to total_exercises, and those on the    *)
(* number_patterns, grammatical_cases and combined_arms arms each add up   *)
(* to at most total_exercises.  A step that is not a failed update takes a *)
(* session without record or with a balanced record to a balanced record.  *)
C25_SuccessfulUpdatesKeepBalance ==
    [][((HasPerformance => Balanced(Performance))
        /\ ~(last'.op = "update" /\ last'.raised # None))
       => (HasPerformance' => Balanced(Performance'))]_vars

C25_Witness ==
    /\ HasPerformance
    /\ Updated
    /\ last.raised = None
    /\ Performance.total_exercises >= 3
    /\ Observed(Performance.exercise_types) = Performance.total_exercises
    /\ Observed(Performance.number_patterns)
          = Performance.total_exercises - 1
    /\ Observed(Performance.combined_arms) < Performance.total_exercises

(* C26: whenever a session holds a performance block, the block is         *)
(* complete (exercise_types, number_patterns, grammatical_cases,           *)
(* combined_arms and total_exercises are all present) and neither update   *)
(* nor select_exercise fails on the session; also after save_progress and  *)
(* load_progress of a session that was saved before it was initialised.    *)
C26_PerformanceBlockComplete ==
    HasPerformance =>
       /\ Range(PerformanceKeys) \subseteq DOMAIN Performance
       /\ ~select_exercise_raises(session)
       /\ \A exercise_info \in PlainInfos, is_correct \in BOOLEAN :
             update(session, exercise_info, is_correct).raised = None

(* C29: update is all-or-nothing: when an update call fails because        *)
(* exercise_info has no exercise_type, the performance record is left      *)
(* exactly as it was before the call.                                      *)
C29_FailedUpdateLeavesRecord ==
    [][(last'.op = "update" /\ last'.raised # None /\ HasPerformance)
       => Performance' = Performance]_vars

(* C30: between resets the record only grows: across init_tracking,        *)
(* update, select_exercise and get_weak_areas calls the record is never    *)
(* removed, total_exercises and every arm's correct and incorrect counters *)
(* never decrease and no arm is removed, so a record whose total_exercises *)
(* has reached the adaptation threshold never returns to forced            *)
(* exploration.                                                            *)
C30_RecordOnlyGrows ==
    [][HasPerformance =>
          /\ HasPerformance'
          /\ ~Lowered(Performance, Performance')
          /\ Performance.total_exercises >= adaptation_threshold =>
                /\ Performance'.total_exercises >= adaptation_threshold
                /\ \A exploration_rate \in ExplorationRates,
                      u \in UniformDraws :
                      Explores(Performance', u, exploration_rate)
                         => u < exploration_rate]_vars

C30_Witness ==
    /\ Selected
    /\ last.mode = "exploit"
    /\ Performance.total_exercises > adaptation_threshold
    /\ \E i \in DOMAIN Performance.exercise_types :
          Performance.exercise_types[i].correct >= 2

StoredTotal(data) ==
    IF "performance" \in DOMAIN data
    THEN Member(data["performance"], "total_exercises")
    ELSE 0

LastEntries(history) ==
    IF Len(history) > history_limit
    THEN SubSeq(history, Len(history) - history_limit + 1, Len(history))
    ELSE history

CountsAgree(data) ==
    /\ Answered(data) = StoredTotal(data)
    /\ Len(Get(data, "history", <<>>))
          = IF Answered(data) < history_limit
            THEN Answered(data) ELSE history_limit

(* C27: in the request flow, after every completed request (page view,     *)
(* answer, reset) the stored session has correct_count + incorrect_count   *)
(* = performance.total_exercises and a history of min(500, correct_count + *)
(* incorrect_count) entries, and a recorded answer is appended as the last *)
(* entry while the earlier entries are kept, up to the last 500.           *)
C27_CountersMatchRecord ==
    [][\A t \in DOMAIN sessions_db'.table :
          LET after == sessions_db'.table[t].data
          IN /\ CountsAgree(after)
             /\ (t \in DOMAIN sessions_db.table
                 /\ Answered(after)
                       = Answered(sessions_db.table[t].data) + 1) =>
                   \E entry \in {after["history"][Len(after["history"])]} :
                      /\ entry.answer = after["feedback_data"].user_answer
                      /\ entry.correct = after["feedback_data"].is_correct
                      /\ after["history"] =
                            LastEntries(Append(
                                Get(sessions_db.table[t].data, "history",
                                    <<>>), entry))]_vars

C27_Witness ==
    /\ clients["b"].pc = "idle"
    /\ clients["b"].cookie \in DOMAIN sessions_db.table
    /\ LET data == sessions_db.table[clients["b"].cookie].data
       IN /\ Answered(data) = 1
          /\ StoredTotal(data) = 1
          /\ Len(data["history"]) = 1
          /\ data["history"][1].correct

(* C27 (the limit of the history): over a run of more than 500 answers of  *)
(* one learner, correct_count + incorrect_count = total_exercises after    *)
(* every answer, the history never holds more than 500 entries, and each   *)
(* answer is appended while the most recent 500 entries are kept.          *)
C27_HistoryKeepsLast500 ==
    [][/\ Answered(session') = session'["performance"].total_exercises
       /\ Answered(session') = Answered(session) + 1
       /\ Len(session'["history"])
             = IF Answered(session') < history_limit
               THEN Answered(session') ELSE history_limit
       /\ \E entry \in {session'["history"][Len(session'["history"])]} :
             /\ entry.answer = session'["feedback_data"].user_answer
             /\ session'["history"]
                   = LastEntries(Append(session["history"], entry))]_vars

C27_WitnessLimit ==
    /\ last.op = "submit_answer"
    /\ Answered(session) = history_limit + 2
    /\ Len(session["history"]) = history_limit
    /\ session["history"][1].correct
    /\ ~session["history"][history_limit].correct

(* C28: no answer is lost when answer requests that carry the same session *)
(* id are handled with their steps interleaved: once they are all handled, *)
(* the stored session has total_exercises, correct_count + incorrect_count *)
(* and a history that count every one of them.                             *)
C28_NoAnswerLost ==
    (\A c \in Clients : clients[c].pc = "idle") =>
       \A t \in DOMAIN sessions_db.table :
          LET data == sessions_db.table[t].data
          IN /\ StoredTotal(data) = calls
             /\ Answered(data) = calls
             /\ Len(data["history"]) = calls

====
